---- MODULE Spec2Model ----
(***************************************************************************)
(* A model of src/app.py, the Flask ledger application: its password       *)
(* utilities, its login/logout, the movements form, the balance pages,    *)
(* the PDF/CSV exports and the user administration pages.                  *)
(*                                                                         *)
(* Python strings that the code slices, strips or parses are modelled as   *)
(* sequences of one-character strings; the relational tables are           *)
(* sequences of rows in insertion (id) order.                              *)
(***************************************************************************)
EXTENDS Integers, Sequences, FiniteSets, TLC

VARIABLES
    usuarios,      \* table usuarios: rows [id, username, password_hash, role]
    movimientos,   \* table movimientos: rows [id, usuario, fecha, producto, tipo, monto]
    session,       \* flask-login session: the logged-in user's id, or 0
    request,       \* the request being answered (route, method, fields)
    response,      \* the answer to it
    pw_plain,      \* password utilities: the secret given at creation
    pw_presented,  \* password utilities: the secret presented at verification
    pw_hash,       \* password utilities: the stored hash
    pw_handed,     \* password utilities: what was last handed to bcrypt
    pw_result,     \* password utilities: the outcome of the last call
    pw_pc          \* password utilities: position of the caller

vars == <<usuarios, movimientos, session, request, response,
          pw_plain, pw_presented, pw_hash, pw_handed, pw_result, pw_pc>>

app_vars == <<usuarios, movimientos, session, request, response>>

pw_vars == <<pw_plain, pw_presented, pw_hash, pw_handed, pw_result, pw_pc>>

-----------------------------------------------------------------------------
(* Bounds of the model *)

\* longest tail of free characters after a secret's run of equal characters
MaxTail == 1

\* most rows the movimientos table grows to
MaxMovs == 2

\* how many distinct salts bcrypt draws from
MaxSalt == 1

-----------------------------------------------------------------------------
(* Python values *)

\* Python's None where a string is expected (no one-character string is "None")
None == <<"None">>

Min(a, b) == IF a <= b THEN a ELSE b

\* s[:n]
Take(s, n) == SubSeq(s, 1, Min(n, Len(s)))

\* c * n
Rep(c, n) == [i \in 1..n |-> c]

\* characters: two ASCII letters, a two-byte letter and the NUL character
NUL == "U+0000"

Alphabet == {"a", "b", "U+00E9", NUL}

\* bytes of a character in UTF-8
Width(c) == IF c = "U+00E9" THEN 2 ELSE 1

\* str.encode("utf-8"): byte k of character c is <<c, k>>
RECURSIVE Encode(_)
Encode(s) ==
    IF s = <<>> THEN <<>>
    ELSE [k \in 1..Width(Head(s)) |-> <<Head(s), k>>] \o Encode(Tail(s))

HasNul(s) == \E i \in 1..Len(s) : s[i] = NUL

-----------------------------------------------------------------------------
(* Password utilities, app.py 59-76 *)

\* bcrypt's input limit in bytes, and the slice truncate_password takes
BcryptMax == 72

TruncateAt == 72

\* the result of a call: a value, or an exception that left the function
Returned(v) == [raised |-> FALSE, exc |-> "", value |-> v]

Raise(e) == [raised |-> TRUE, exc |-> e, value |-> FALSE]

\* a slip in truncate_password: the slice is one character short
truncate_password_OffByOne(password) ==
    IF password = None THEN <<>> ELSE Take(password, TruncateAt - 1)

\* def truncate_password(password)
truncate_password(password) ==
    IF password = None THEN <<>> ELSE Take(password, TruncateAt)

\* a stored hash: a well-formed bcrypt hash of a key under a salt, or a string
\* that is no bcrypt hash (empty, or some other text)
BcryptHash(salt, key) == [fmt |-> "bcrypt", salt |-> salt, key |-> key]

EmptyHash == [fmt |-> "empty", salt |-> 0, key |-> <<>>]

GarbageHash == [fmt |-> "garbage", salt |-> 0, key |-> <<>>]

MalformedHashes == {EmptyHash, GarbageHash}

\* what bcrypt digests: the first 72 bytes of the secret (passlib's bcrypt
\* silently ignores the rest); the digest is taken to be collision-free
BcryptKey(secret) == Take(Encode(secret), BcryptMax)

\* passlib.hash.bcrypt.hash(secret): refuses a secret holding NUL
bcrypt_hash(secret, salt) ==
    IF HasNul(secret) THEN Raise("PasswordValueError")
    ELSE Returned(BcryptHash(salt, BcryptKey(secret)))

\* passlib.hash.bcrypt.verify(secret, hash): raises on a hash it cannot
\* identify and on a secret holding NUL
bcrypt_verify(secret, hash) ==
    IF hash.fmt # "bcrypt" THEN Raise("ValueError")
    ELSE IF HasNul(secret) THEN Raise("PasswordValueError")
    ELSE Returned(BcryptKey(secret) = hash.key)

\* def hash_password(plain_password)
hash_password(plain_password, salt) ==
    bcrypt_hash(truncate_password(plain_password), salt)

\* a slip in verify_password: bcrypt's exceptions are not caught
verify_password_NoCatch(plain_password, password_hash) ==
    bcrypt_verify(truncate_password(plain_password), password_hash)

\* def verify_password(plain_password, password_hash): try/except Exception
verify_password(plain_password, password_hash) ==
    LET r == bcrypt_verify(truncate_password(plain_password), password_hash)
    IN  IF r.raised THEN Returned(FALSE) ELSE r

-----------------------------------------------------------------------------
(* Strings of the forms *)

Space == " "

\* str.strip()
RECURSIVE LStrip(_)
LStrip(s) == IF s # <<>> /\ Head(s) = Space THEN LStrip(Tail(s)) ELSE s

RECURSIVE RStrip(_)
RStrip(s) ==
    IF s # <<>> /\ s[Len(s)] = Space THEN RStrip(SubSeq(s, 1, Len(s) - 1)) ELSE s

Strip(s) == LStrip(RStrip(s))

\* dict.get(key, default) on a form or on the query string
Get(field, default) == IF field = None THEN default ELSE field

\* str.replace(old, new) for one-character old and new
Replace(s, old, new) == [i \in 1..Len(s) |-> IF s[i] = old THEN new ELSE s[i]]

\* the fields of s between occurrences of sep
RECURSIVE Split(_, _)
Split(s, sep) ==
    IF \A i \in 1..Len(s) : s[i] # sep THEN <<s>>
    ELSE LET k == CHOOSE i \in 1..Len(s) :
                      s[i] = sep /\ \A j \in 1..(i - 1) : s[j] # sep
         IN  <<SubSeq(s, 1, k - 1)>> \o Split(SubSeq(s, k + 1, Len(s)), sep)

Digits == {"0", "1", "2", "3", "4", "5", "6", "7", "8", "9"}

DigitVal(c) ==
    CASE c = "0" -> 0 [] c = "1" -> 1 [] c = "2" -> 2 [] c = "3" -> 3
      [] c = "4" -> 4 [] c = "5" -> 5 [] c = "6" -> 6 [] c = "7" -> 7
      [] c = "8" -> 8 [] c = "9" -> 9

AllDigits(s) == \A i \in 1..Len(s) : s[i] \in Digits

\* the number a string of digits denotes (0 for the empty string)
RECURSIVE Num(_)
Num(s) ==
    IF s = <<>> THEN 0
    ELSE 10 * Num(SubSeq(s, 1, Len(s) - 1)) + DigitVal(s[Len(s)])

-----------------------------------------------------------------------------
(* datetime.strptime(...).date(), app.py 251-258 *)

\* a date is <<year, month, day>>
IsLeap(y) == (y % 4 = 0 /\ y % 100 # 0) \/ y % 400 = 0

DaysIn(y, m) ==
    IF m = 2 THEN (IF IsLeap(y) THEN 29 ELSE 28)
    ELSE IF m \in {4, 6, 9, 11} THEN 30 ELSE 31

\* the three numeric fields of a date, checked as strptime and date() check them
DateOf(y, m, d) ==
    IF /\ Len(y) = 4 /\ AllDigits(y)
       /\ Len(m) \in {1, 2} /\ AllDigits(m)
       /\ Len(d) \in {1, 2} /\ AllDigits(d)
       /\ Num(y) >= 1
       /\ Num(m) \in 1..12
       /\ Num(d) >= 1 /\ Num(d) <= DaysIn(Num(y), Num(m))
    THEN Returned(<<Num(y), Num(m), Num(d)>>)
    ELSE Raise("ValueError")

\* strptime(s, "%Y-%m-%d") and strptime(s, "%d/%m/%Y"): a TypeError when s is
\* None, a ValueError when s does not match the format or names no day
strptime(s, fmt) ==
    IF s = None THEN Raise("TypeError")
    ELSE LET sep == IF fmt = "%Y-%m-%d" THEN "-" ELSE "/"
             f   == Split(s, sep)
         IN  IF Len(f) # 3 THEN Raise("ValueError")
             ELSE IF fmt = "%Y-%m-%d" THEN DateOf(f[1], f[2], f[3])
             ELSE DateOf(f[3], f[2], f[1])

\* ORDER BY fecha
DateKey(f) == f[1] * 10000 + f[2] * 100 + f[3]

-----------------------------------------------------------------------------
(* float(), app.py 260-264, and the NUMERIC(10,2) column, app.py 185 *)

\* a float is a finite number of thousandths, NaN, or an infinity
Fin(m) == [kind |-> "fin", milli |-> m]

NaN == [kind |-> "nan", milli |-> 0]

PosInf == [kind |-> "inf", milli |-> 1]

\* the digits after the point, as thousandths (the model's amounts carry at
\* most three decimals)
Frac(s) == Num(Take(s \o <<"0", "0", "0">>, 3))

\* float(s) for an optionally signed decimal numeral, "nan" and "inf"; a
\* ValueError for anything else
float(s) ==
    IF s = <<"n", "a", "n">> THEN Returned(NaN)
    ELSE IF s = <<"i", "n", "f">> THEN Returned(PosInf)
    ELSE LET neg  == s # <<>> /\ Head(s) = "-"
             body == IF neg THEN Tail(s) ELSE s
             f    == Split(body, ".")
             ip   == f[1]
             fp   == IF Len(f) = 2 THEN f[2] ELSE <<>>
         IN  IF /\ Len(f) <= 2
                /\ AllDigits(ip) /\ AllDigits(fp)
                /\ Len(ip) + Len(fp) > 0
             THEN Returned(Fin((IF neg THEN -1 ELSE 1)
                               * (1000 * Num(ip) + Frac(fp))))
             ELSE Raise("ValueError")

\* monto <= 0 (every comparison with NaN is false)
LeqZero(x) == x.kind = "fin" /\ x.milli <= 0

\* a stored amount: hundredths, or NaN
Cents(c) == [kind |-> "fin", cents |-> c]

NumericNaN == [kind |-> "nan", cents |-> 0]

\* the value the NUMERIC(10,2) column keeps of a float: rounded to two
\* decimals, half away from zero; NaN is kept; an infinity is refused
ToNumeric(x) ==
    IF x.kind = "nan" THEN Returned(NumericNaN)
    ELSE IF x.kind = "inf" THEN Raise("DataError")
    ELSE IF x.milli >= 0 THEN Returned(Cents((x.milli + 5) \div 10))
    ELSE Returned(Cents(-((-x.milli + 5) \div 10)))

-----------------------------------------------------------------------------
(* The tables, app.py 163-190, and the queries on them *)

Range(s) == {s[i] : i \in 1..Len(s)}

\* the names and secrets the model's requests carry
Admin == <<"a", "d", "m", "i", "n">>

Ana == <<"a", "n", "a">>

Bob == <<"b", "o", "b">>

Leo == <<"l", "e", "o">>

Zoe == <<"z", "o", "e">>

Eva == <<"e", "v", "a">>

Letters == <<"a", "b", "d", "e", "i", "l", "m", "n", "o", "v", "z">>

Ord(c) == CHOOSE i \in 1..Len(Letters) : Letters[i] = c

\* a < b for TEXT values (ORDER BY usuario)
RECURSIVE TextLess(_, _)
TextLess(a, b) ==
    IF b = <<>> THEN FALSE
    ELSE IF a = <<>> THEN TRUE
    ELSE IF Head(a) # Head(b) THEN Ord(Head(a)) < Ord(Head(b))
    ELSE TextLess(Tail(a), Tail(b))

\* Usuario.from_row over SELECT ... FROM usuarios WHERE id = %s; None is <<>>
get_by_id(user_id) ==
    LET Match(r) == r.id = user_id
    IN  SelectSeq(usuarios, Match)

\* Usuario.get_by_username
get_by_username(username) ==
    LET Match(r) == r.username = username
    IN  SelectSeq(usuarios, Match)

RoleAdmin == <<"a", "d", "m", "i", "n">>

RoleUser == <<"u", "s", "e", "r">>

\* a slip in is_admin: any role that is set counts as admin
is_admin_AnyRole(user) == user.role # <<>>

\* Usuario.is_admin
is_admin(user) == user.role = RoleAdmin

\* login_manager.user_loader: the user of the session, <<>> when anonymous
current_user == IF session = 0 THEN <<>> ELSE get_by_id(session)

is_authenticated == current_user # <<>>

Compra == <<"C", "o", "m", "p", "r", "a">>

Abono == <<"A", "b", "o", "n", "o">>

Pago == <<"P", "a", "g", "o">>

\* NUMERIC addition and negation
Add(x, y) ==
    IF x.kind = "nan" \/ y.kind = "nan" THEN NumericNaN
    ELSE Cents(x.cents + y.cents)

Neg(x) == IF x.kind = "nan" THEN NumericNaN ELSE Cents(-x.cents)

\* CASE WHEN tipo = 'Abono' THEN monto WHEN tipo = 'Compra' THEN -monto ELSE 0 END
SignedMonto(r) ==
    IF r.tipo = Abono THEN r.monto
    ELSE IF r.tipo = Compra THEN Neg(r.monto)
    ELSE Cents(0)

\* SUM(...) over rows that are not empty
RECURSIVE SumSigned(_)
SumSigned(rows) ==
    IF rows = <<>> THEN Cents(0)
    ELSE Add(SignedMonto(Head(rows)), SumSigned(Tail(rows)))

\* SELECT SUM(CASE ...) AS saldo FROM movimientos WHERE usuario = %s, then
\* float(row["saldo"] or 0): the sum is NULL when no row matches
SaldoDe(username) ==
    LET Mine(r) == r.usuario = username
        rows    == SelectSeq(movimientos, Mine)
    IN  IF rows = <<>> THEN Cents(0) ELSE SumSigned(rows)

\* ORDER BY fecha ASC, id ASC
FechaAsc(a, b) ==
    \/ DateKey(a.fecha) < DateKey(b.fecha)
    \/ DateKey(a.fecha) = DateKey(b.fecha) /\ a.id < b.id

\* ORDER BY fecha DESC, id DESC
FechaDesc(a, b) == FechaAsc(b, a)

\* ORDER BY usuario ASC, fecha ASC, id ASC
UsuarioFechaAsc(a, b) ==
    \/ TextLess(a.usuario, b.usuario)
    \/ a.usuario = b.usuario /\ FechaAsc(a, b)

\* whether row a comes before row b under an ORDER BY clause
Before(order, a, b) ==
    CASE order = "fecha ASC, id ASC" -> FechaAsc(a, b)
      [] order = "fecha DESC, id DESC" -> FechaDesc(a, b)
      [] order = "usuario ASC, fecha ASC, id ASC" -> UsuarioFechaAsc(a, b)
      [] order = "usuario" -> TextLess(a.usuario, b.usuario)
      [] order = "username ASC" -> TextLess(a.username, b.username)

\* the rows of a query in the order of its ORDER BY clause
OrderBy(rows, order) ==
    [i \in 1..Len(rows) |->
        CHOOSE r \in Range(rows) :
            Cardinality({q \in Range(rows) : Before(order, q, r)}) = i - 1]

\* SELECT usuario, SUM(CASE ...) AS saldo FROM movimientos
\* GROUP BY usuario ORDER BY usuario
SaldosPorUsuario ==
    LET names == {r.usuario : r \in Range(movimientos)}
        groups == CHOOSE g \in [1..Cardinality(names) -> names] :
                      \A i, j \in 1..Cardinality(names) : i # j => g[i] # g[j]
    IN  OrderBy([i \in 1..Cardinality(names) |->
                    [usuario |-> groups[i], saldo |-> SaldoDe(groups[i])]],
                "usuario")

-----------------------------------------------------------------------------
(* Requests and responses *)

Salts == 1..MaxSalt

NoSaldo == Cents(0)

\* a response: the status, the message flashed, the template rendered or the
\* endpoint redirected to or the file sent, and the data handed to it
Resp(status, flash, page, rows, saldo) ==
    [status |-> status, flash |-> flash, page |-> page,
     rows |-> rows, saldo |-> saldo]

Redirect(flash, endpoint) == Resp(302, flash, endpoint, <<>>, NoSaldo)

Render(flash, template, rows, saldo) == Resp(200, flash, template, rows, saldo)

\* an exception no handler catches: Flask answers 500
ServerError(exc) == Resp(500, exc, "", <<>>, NoSaldo)

\* @login_required for an anonymous client: login_manager.login_view
Unauthorized == Redirect("Please log in to access this page.", "login")

Req(route, method, fields) ==
    [route |-> route, method |-> method, fields |-> fields]

UserRow(id, username, password_hash, role) ==
    [id |-> id, username |-> username,
     password_hash |-> password_hash, role |-> role]

\* the state the application starts from: the tables exist, an admin and a
\* plain user can log in, and two older rows hold no usable hash
InitUsuarios ==
    << UserRow(1, Admin, hash_password(<<"a">>, 1).value, RoleAdmin),
       UserRow(2, Ana, hash_password(<<"b">>, 1).value, RoleUser),
       UserRow(3, Leo, EmptyHash, RoleUser),
       UserRow(4, Zoe, GarbageHash, RoleAdmin) >>

AppInit ==
    /\ usuarios = InitUsuarios
    /\ movimientos = <<>>
    /\ session = 0
    /\ request = Req("", "", <<>>)
    /\ response = Resp(0, "", "", <<>>, NoSaldo)

-----------------------------------------------------------------------------
(* Authentication, app.py 203-232 *)

LoginUsernames == {Admin, <<Space>> \o Ana \o <<Space>>, Leo, Zoe, Eva}

LoginPasswords == {None, <<"a">>, <<"b">>}

\* the submissions of the login form: every username with one secret, and
\* every secret for the two users who hold a usable hash
LoginInputs ==
    [username : LoginUsernames, password : {<<"a">>}]
    \cup [username : {Admin, <<Space>> \o Ana \o <<Space>>},
          password : LoginPasswords]

LoginFailed ==
    Render("Usuario o contrasena incorrectos.", "login.html",
           <<"Usuario o contrasena incorrectos.">>, NoSaldo)

\* Usuario.check_password
check_password(user, password) == verify_password(password, user.password_hash)

\* a slip in login(): an unknown username gets a message of its own
LoginPostResult_TellsUnknown(f) ==
    LET username == Strip(Get(f.username, <<>>))
        password == Get(f.password, <<>>)
        user     == get_by_username(username)
        ok       == check_password(user[1], password)
    IN  IF user = <<>>
            THEN [session |-> session,
                  response |-> Render("El usuario no existe.", "login.html",
                                      <<"El usuario no existe.">>, NoSaldo)]
        ELSE IF ok.raised
            THEN [session |-> session, response |-> ServerError(ok.exc)]
        ELSE IF ok.value
            THEN [session |-> user[1].id,
                  response |-> Redirect("Sesion iniciada correctamente.",
                                        "registro_movimientos")]
        ELSE [session |-> session, response |-> LoginFailed]

\* the answer of login() to a POST by a client that is not logged in, and the
\* session after it; an exception out of check_password would leave login()
LoginPostResult(f) ==
    LET username == Strip(Get(f.username, <<>>))
        password == Get(f.password, <<>>)
        user     == get_by_username(username)
        ok       == check_password(user[1], password)
    IN  IF user = <<>> THEN [session |-> session, response |-> LoginFailed]
        ELSE IF ok.raised
            THEN [session |-> session, response |-> ServerError(ok.exc)]
        ELSE IF ok.value
            THEN [session |-> user[1].id,
                  response |-> Redirect("Sesion iniciada correctamente.",
                                        "registro_movimientos")]
        ELSE [session |-> session, response |-> LoginFailed]

\* @app.route("/login", methods=["GET", "POST"])
LoginPost(f) ==
    /\ request' = Req("/login", "POST", f)
    /\ IF is_authenticated
       THEN /\ response' = Redirect("", "registro_movimientos")
            /\ session' = session
       ELSE /\ response' = LoginPostResult(f).response
            /\ session' = LoginPostResult(f).session
    /\ UNCHANGED <<usuarios, movimientos, pw_vars>>

LoginGet ==
    /\ request' = Req("/login", "GET", <<>>)
    /\ response' = IF is_authenticated
                   THEN Redirect("", "registro_movimientos")
                   ELSE Render("", "login.html", <<>>, NoSaldo)
    /\ UNCHANGED <<usuarios, movimientos, session, pw_vars>>

\* @app.route("/logout")
Logout ==
    /\ request' = Req("/logout", "GET", <<>>)
    /\ IF is_authenticated
       THEN /\ session' = 0
            /\ response' = Redirect("Sesion cerrada.", "login")
       ELSE /\ session' = session
            /\ response' = Unauthorized
    /\ UNCHANGED <<usuarios, movimientos, pw_vars>>

-----------------------------------------------------------------------------
(* The movements form, app.py 239-383 *)

FechaIso == <<"2", "0", "2", "4", "-", "0", "1", "-", "0", "5">>

FechaDmy == <<"0", "1", "/", "0", "1", "/", "2", "0", "2", "4">>

FechaBad == <<"3", "0", "/", "0", "2", "/", "2", "0", "2", "4">>

FechaInputs == {None, FechaIso, FechaDmy, FechaBad}

TipoInputs == {None, Compra, Abono, Pago}

MontoOk == <<"2", ",", "5", "0">>

MontoInputs ==
    { None, <<"x">>, <<"-", "5">>, <<"0", ".", "0", "0", "4">>,
      MontoOk, <<"i", "n", "f">> }

Pan == <<"p", "a", "n", Space>>

\* the submissions of the form: every field varied over its inputs beside
\* good values of the other two, the two dates with the two types, and
\* submissions with nothing right
FormInputs ==
    [fecha : {FechaIso, FechaDmy}, producto : {Pan}, tipo : {None, Abono},
     monto : {MontoOk}]
    \cup [fecha : {FechaIso}, producto : {Pan}, tipo : {Abono},
          monto : MontoInputs]
    \cup [fecha : FechaInputs, producto : {Pan}, tipo : {Abono},
          monto : {MontoOk}]
    \cup [fecha : {FechaIso}, producto : {Pan}, tipo : TipoInputs,
          monto : {MontoOk}]
    \cup [fecha : {None, FechaBad}, producto : {Pan}, tipo : {Pago},
          monto : {<<"x">>}]

MovRow(id, usuario, fecha, producto, tipo, monto) ==
    [id |-> id, usuario |-> usuario, fecha |-> fecha, producto |-> producto,
     tipo |-> tipo, monto |-> monto]

\* what a POST of the form by current user `user` answers, and the table after it
RegistroPostResult(f, user) ==
    LET producto  == Strip(Get(f.producto, <<>>))
        tipo      == Get(f.tipo, Compra)
        monto_str == Replace(Get(f.monto, <<"0">>), ",", ".")
        iso       == strptime(f.fecha, "%Y-%m-%d")
        dmy       == strptime(f.fecha, "%d/%m/%Y")
        monto     == float(monto_str)
        Same(resp) == [response |-> resp, movimientos |-> movimientos]
    IN  IF iso.raised /\ iso.exc # "ValueError"
            THEN Same(ServerError(iso.exc))
        ELSE IF iso.raised /\ dmy.raised
            THEN Same(Redirect("Fecha invalida.", "registro_movimientos"))
        ELSE IF monto.raised
            THEN Same(Redirect("Monto invalido.", "registro_movimientos"))
        ELSE IF LeqZero(monto.value)
            THEN Same(Redirect("El monto debe ser mayor a cero.",
                               "registro_movimientos"))
        ELSE IF tipo \notin {Compra, Abono}
            THEN Same(Redirect("Tipo invalido.", "registro_movimientos"))
        ELSE LET fecha  == IF iso.raised THEN dmy.value ELSE iso.value
                 stored == ToNumeric(monto.value)
             IN  IF stored.raised THEN Same(ServerError(stored.exc))
                 ELSE [response |->
                           Redirect("Movimiento guardado correctamente.",
                                    "registro_movimientos"),
                       movimientos |->
                           Append(movimientos,
                                  MovRow(Len(movimientos) + 1, user.username,
                                         fecha, producto, tipo, stored.value))]

\* POST /movimientos
RegistroPost(f) ==
    /\ request' = Req("/movimientos", "POST", f)
    /\ IF ~is_authenticated
       THEN /\ response' = Unauthorized
            /\ movimientos' = movimientos
       ELSE LET r == RegistroPostResult(f, current_user[1])
            IN  /\ Len(r.movimientos) <= MaxMovs
                /\ response' = r.response
                /\ movimientos' = r.movimientos
    /\ UNCHANGED <<usuarios, session, pw_vars>>

PerPage == 10

PageInputs == {None, <<"2">>, <<"0">>, <<"x">>}

\* int(s) for an unsigned numeral
int(s) == IF s # <<>> /\ AllDigits(s) THEN Returned(Num(s)) ELSE Raise("ValueError")

\* LIMIT %s OFFSET %s
LimitOffset(rows, limit, offset) ==
    SubSeq(rows, offset + 1, Min(offset + limit, Len(rows)))

\* GET /movimientos without a search filter: the balance and one page of the
\* current user's movements
RegistroGetResult(a, user) ==
    LET page == int(Get(a.page, <<"1">>))
        offset == (page.value - 1) * PerPage
        Mine(r) == r.usuario = user.username
        mine == OrderBy(SelectSeq(movimientos, Mine), "fecha DESC, id DESC")
    IN  IF page.raised THEN ServerError(page.exc)
        ELSE IF offset < 0 THEN ServerError("DataError")
        ELSE Render("", "form.html", LimitOffset(mine, PerPage, offset),
                    SaldoDe(user.username))

RegistroGet(a) ==
    /\ request' = Req("/movimientos", "GET", a)
    /\ response' = IF ~is_authenticated THEN Unauthorized
                   ELSE RegistroGetResult(a, current_user[1])
    /\ UNCHANGED <<usuarios, movimientos, session, pw_vars>>

-----------------------------------------------------------------------------
(* Balances per user, app.py 390-418 *)

NoPermiso(flash) == Redirect(flash, "registro_movimientos")

SaldosResult(user) ==
    IF ~is_admin(user)
    THEN NoPermiso("No tienes permisos para ver esta seccion.")
    ELSE Render("", "usuario.html", SaldosPorUsuario, NoSaldo)

SaldosUsuarios ==
    /\ request' = Req("/saldos", "GET", <<>>)
    /\ response' = IF ~is_authenticated THEN Unauthorized
                   ELSE SaldosResult(current_user[1])
    /\ UNCHANGED <<usuarios, movimientos, session, pw_vars>>

-----------------------------------------------------------------------------
(* The exports, app.py 425-551 *)

UsuarioParams == {None, <<>>, Ana, Admin}

\* a slip in the exports: the query parameter is taken from anybody
ExportFilter_FromQuery(a, user) == a.usuario

\* the usuario the export filters by: the query parameter for an admin, the
\* current user's own name for anybody else
ExportFilter(a, user) ==
    IF ~is_admin(user) THEN user.username ELSE a.usuario

\* the movements either export fetches (None and "" are both falsy)
ExportRows(a, user) ==
    LET usuario == ExportFilter(a, user)
        Match(r) == r.usuario = usuario
    IN  IF usuario # None /\ usuario # <<>>
        THEN OrderBy(SelectSeq(movimientos, Match), "fecha ASC, id ASC")
        ELSE OrderBy(movimientos, "usuario ASC, fecha ASC, id ASC")

\* one line of the PDF, one row of the CSV
ExportLine(r) ==
    [usuario |-> r.usuario, fecha |-> r.fecha, producto |-> r.producto,
     tipo |-> r.tipo, monto |-> r.monto]

ExportLines(rows) == [i \in 1..Len(rows) |-> ExportLine(rows[i])]

\* the PDF: the title, then one line per movement
PdfResult(a, user) ==
    Resp(200, "", "reporte_movimientos.pdf",
         <<"Reporte de Movimientos">> \o ExportLines(ExportRows(a, user)),
         NoSaldo)

\* the CSV: the header row, then one row per movement
CsvHeader == <<"Usuario", "Fecha", "Producto", "Tipo", "Monto">>

CsvResult(a, user) ==
    Resp(200, "", "movimientos.csv",
         <<CsvHeader>> \o ExportLines(ExportRows(a, user)), NoSaldo)

\* a slip in reporte_pdf: @login_required is missing, so the body runs for an
\* anonymous client and current_user.is_admin() raises AttributeError
ReportePdf_NoLoginRequired(a) ==
    /\ request' = Req("/reportes/pdf", "GET", a)
    /\ response' = IF ~is_authenticated THEN ServerError("AttributeError")
                   ELSE PdfResult(a, current_user[1])
    /\ UNCHANGED <<usuarios, movimientos, session, pw_vars>>

ReportePdf(a) ==
    /\ request' = Req("/reportes/pdf", "GET", a)
    /\ response' = IF ~is_authenticated THEN Unauthorized
                   ELSE PdfResult(a, current_user[1])
    /\ UNCHANGED <<usuarios, movimientos, session, pw_vars>>

ReporteExcel(a) ==
    /\ request' = Req("/reportes/excel", "GET", a)
    /\ response' = IF ~is_authenticated THEN Unauthorized
                   ELSE CsvResult(a, current_user[1])
    /\ UNCHANGED <<usuarios, movimientos, session, pw_vars>>

-----------------------------------------------------------------------------
(* User administration, app.py 558-603 *)

\* SELECT id, username, role FROM usuarios ORDER BY username ASC
ListaRows ==
    LET sorted == OrderBy(usuarios, "username ASC")
    IN  [i \in 1..Len(sorted) |->
            [id |-> sorted[i].id, username |-> sorted[i].username,
             role |-> sorted[i].role]]

ListaResult(user) ==
    IF ~is_admin(user)
    THEN NoPermiso("No tienes permisos para ver esta seccion.")
    ELSE Render("", "usuarios_list.html", ListaRows, NoSaldo)

ListaUsuarios ==
    /\ request' = Req("/usuarios", "GET", <<>>)
    /\ response' = IF ~is_authenticated THEN Unauthorized
                   ELSE ListaResult(current_user[1])
    /\ UNCHANGED <<usuarios, movimientos, session, pw_vars>>

NuevoGetResult(user) ==
    IF ~is_admin(user)
    THEN NoPermiso("No tienes permisos para crear usuarios.")
    ELSE Render("", "usuario_nuevo.html", <<>>, NoSaldo)

NuevoUsuarioGet ==
    /\ request' = Req("/usuarios/nuevo", "GET", <<>>)
    /\ response' = IF ~is_authenticated THEN Unauthorized
                   ELSE NuevoGetResult(current_user[1])
    /\ UNCHANGED <<usuarios, movimientos, session, pw_vars>>

\* the submissions of the new-user form
NuevoInputs ==
    [username : {None, Ana, <<Space>> \o Bob}, password : {<<"a">>},
     role : {None, RoleAdmin}]
    \cup [username : {<<Space>> \o Bob}, password : {None, <<"a">>, <<NUL>>},
          role : {None}]

\* Usuario.create: the INSERT fails on a username the table already holds
Create(username, password, role, salt) ==
    LET hashed == hash_password(password, salt)
    IN  IF hashed.raised THEN hashed
        ELSE IF get_by_username(username) # <<>> THEN Raise("UniqueViolation")
        ELSE Returned(Append(usuarios,
                             UserRow(Len(usuarios) + 1, username,
                                     hashed.value, role)))

\* what a POST of the new-user form by `user` answers, and the table after it
NuevoPostResult(f, user, salt) ==
    LET username == Strip(Get(f.username, <<>>))
        password == Get(f.password, <<>>)
        role     == Get(f.role, RoleUser)
        created  == Create(username, password, role, salt)
        Same(resp) == [response |-> resp, usuarios |-> usuarios]
    IN  IF ~is_admin(user)
            THEN Same(NoPermiso("No tienes permisos para crear usuarios."))
        ELSE IF username = <<>> \/ password = <<>>
            THEN Same(Redirect("Usuario y contrasena son obligatorios.",
                               "nuevo_usuario"))
        ELSE IF created.raised /\ created.exc = "UniqueViolation"
            THEN Same(Render("El usuario ya existe.", "usuario_nuevo.html",
                             <<>>, NoSaldo))
        ELSE IF created.raised
            THEN Same(Render("Ocurrio un error al crear el usuario.",
                             "usuario_nuevo.html", <<>>, NoSaldo))
        ELSE [response |-> Redirect("Usuario creado correctamente.",
                                    "lista_usuarios"),
              usuarios |-> created.value]

NuevoUsuarioPost(f) ==
    /\ request' = Req("/usuarios/nuevo", "POST", f)
    /\ IF ~is_authenticated
       THEN /\ response' = Unauthorized
            /\ usuarios' = usuarios
       ELSE \E salt \in Salts :
                LET r == NuevoPostResult(f, current_user[1], salt)
                IN  /\ response' = r.response
                    /\ usuarios' = r.usuarios
    /\ UNCHANGED <<movimientos, session, pw_vars>>

-----------------------------------------------------------------------------
(* Dashboard, app.py 610-662 *)

\* COALESCE(SUM(CASE WHEN tipo = t THEN monto ELSE 0 END), 0)
RECURSIVE TotalDe(_, _)
TotalDe(rows, t) ==
    IF rows = <<>> THEN Cents(0)
    ELSE Add(IF Head(rows).tipo = t THEN Head(rows).monto ELSE Cents(0),
             TotalDe(Tail(rows), t))

DashboardData ==
    [total_usuarios |-> Len(usuarios),
     total_movs     |-> Len(movimientos),
     total_compras  |-> TotalDe(movimientos, Compra),
     total_abonos   |-> TotalDe(movimientos, Abono),
     saldo_global   |-> Add(TotalDe(movimientos, Abono),
                            Neg(TotalDe(movimientos, Compra))),
     saldos         |-> SaldosPorUsuario]

DashboardResult(user) ==
    IF ~is_admin(user)
    THEN NoPermiso("No tienes permisos para ver el dashboard.")
    ELSE Render("", "dashboard.html", <<DashboardData>>, NoSaldo)

Dashboard ==
    /\ request' = Req("/dashboard", "GET", <<>>)
    /\ response' = IF ~is_authenticated THEN Unauthorized
                   ELSE DashboardResult(current_user[1])
    /\ UNCHANGED <<usuarios, movimientos, session, pw_vars>>

-----------------------------------------------------------------------------
(* The application: any client request, one at a time *)

PwIdle ==
    /\ pw_plain = None
    /\ pw_presented = None
    /\ pw_hash = EmptyHash
    /\ pw_handed = <<>>
    /\ pw_result = Returned(FALSE)
    /\ pw_pc = "idle"

Init == AppInit /\ PwIdle

Next ==
    \/ \E f \in LoginInputs : LoginPost(f)
    \/ LoginGet
    \/ Logout
    \/ \E f \in FormInputs : RegistroPost(f)
    \/ \E a \in [page : PageInputs] : RegistroGet(a)
    \/ SaldosUsuarios
    \/ \E a \in [usuario : UsuarioParams] : ReportePdf(a)
    \/ \E a \in [usuario : UsuarioParams] : ReporteExcel(a)
    \/ ListaUsuarios
    \/ NuevoUsuarioGet
    \/ \E f \in NuevoInputs : NuevoUsuarioPost(f)
    \/ Dashboard

Spec == Init /\ [][Next]_vars

-----------------------------------------------------------------------------
(* The password utilities on their own: a secret is hashed, or a stored     *)
(* value is found in its place, and a presented secret is verified          *)

Heads ==
    {Rep("a", n) : n \in {0, BcryptMax - 1, BcryptMax}}
    \cup {Rep("U+00E9", n) : n \in {BcryptMax \div 2 - 1, BcryptMax \div 2}}

Tails == UNION {[1..n -> Alphabet] : n \in 0..MaxTail}

Secrets == {h \o t : h \in Heads, t \in Tails} \cup {None}

PwInit ==
    /\ pw_plain \in Secrets
    /\ pw_presented \in Secrets
    /\ pw_hash = EmptyHash
    /\ pw_handed = <<>>
    /\ pw_result = Returned(FALSE)
    /\ pw_pc = "start"

\* hash_password(pw_plain)
PwHash ==
    /\ pw_pc = "start"
    /\ \E salt \in Salts :
          LET r == hash_password(pw_plain, salt)
          IN  /\ pw_handed' = truncate_password(pw_plain)
              /\ IF r.raised
                 THEN /\ pw_pc' = "hash_raised"
                      /\ pw_result' = r
                      /\ pw_hash' = pw_hash
                 ELSE /\ pw_pc' = "hashed"
                      /\ pw_result' = pw_result
                      /\ pw_hash' = r.value
    /\ UNCHANGED <<pw_plain, pw_presented, app_vars>>

\* the row holds something that is no bcrypt hash
PwStored ==
    /\ pw_pc = "start"
    /\ pw_hash' \in MalformedHashes
    /\ pw_pc' = "stored"
    /\ UNCHANGED <<pw_plain, pw_presented, pw_handed, pw_result, app_vars>>

\* verify_password(pw_presented, pw_hash)
PwVerify ==
    /\ pw_pc \in {"hashed", "stored"}
    /\ pw_handed' = truncate_password(pw_presented)
    /\ pw_result' = verify_password(pw_presented, pw_hash)
    /\ pw_pc' = IF pw_pc = "hashed" THEN "verified" ELSE "verified_stored"
    /\ UNCHANGED <<pw_plain, pw_presented, pw_hash, app_vars>>

InitPw == AppInit /\ PwInit

NextPw == PwHash \/ PwStored \/ PwVerify

SpecPw == InitPw /\ [][NextPw]_vars

-----------------------------------------------------------------------------
(* Properties *)

\* the user whose session the client holds
Me == current_user[1]

\* the signed amount of a movement as the specification counts it: a purchase
\* adds to the balance, a payment takes from it
ClaimedSigned(r) == IF r.tipo = Compra THEN r.monto ELSE Neg(r.monto)

RECURSIVE ClaimedSum(_)
ClaimedSum(rows) ==
    IF rows = <<>> THEN Cents(0)
    ELSE Add(ClaimedSigned(Head(rows)), ClaimedSum(Tail(rows)))

ClaimedBalance(username) ==
    LET Mine(r) == r.usuario = username
    IN  ClaimedSum(SelectSeq(movimientos, Mine))

\* C1: the balance shown for a user (saldo_actual on the movements page, the
\* user's row in /saldos and in /dashboard) is the signed sum of the user's
\* movements, 'Compra' counted positive and 'Abono' negative, and zero when
\* the user has no movements.
C1_BalanceIsSignedSum ==
    /\ (request.route = "/movimientos" /\ request.method = "GET"
            /\ response.status = 200)
        => response.saldo = ClaimedBalance(Me.username)
    /\ (request.route = "/saldos" /\ response.status = 200)
        => \A i \in 1..Len(response.rows) :
               response.rows[i].saldo = ClaimedBalance(response.rows[i].usuario)
    /\ (request.route = "/dashboard" /\ response.status = 200)
        => \A i \in 1..Len(response.rows[1].saldos) :
               response.rows[1].saldos[i].saldo
                   = ClaimedBalance(response.rows[1].saldos[i].usuario)

AdminRoutes == {"/saldos", "/usuarios", "/usuarios/nuevo", "/dashboard"}

\* what an admin's request to an admin-only route does when it is carried out
C2_CarriedOut ==
    /\ response'.status # 500
    /\ response'.page # "registro_movimientos"
    /\ request'.route = "/saldos"
        => /\ response'.page = "usuario.html"
           /\ {response'.rows[i].usuario : i \in 1..Len(response'.rows)}
                  = {movimientos[i].usuario : i \in 1..Len(movimientos)}
    /\ request'.route = "/usuarios"
        => /\ response'.page = "usuarios_list.html"
           /\ {response'.rows[i].username : i \in 1..Len(response'.rows)}
                  = {usuarios[i].username : i \in 1..Len(usuarios)}
    /\ request'.route = "/dashboard"
        => /\ response'.page = "dashboard.html"
           /\ response'.rows[1].total_usuarios = Len(usuarios)
           /\ response'.rows[1].total_movs = Len(movimientos)
    /\ (request'.route = "/usuarios/nuevo" /\ request'.method = "GET")
        => response'.page = "usuario_nuevo.html" /\ usuarios' = usuarios
    /\ (request'.route = "/usuarios/nuevo" /\ request'.method = "POST")
        => LET name == Strip(Get(request'.fields.username, <<>>))
               pass == Get(request'.fields.password, <<>>)
               taken == \E i \in 1..Len(usuarios) : usuarios[i].username = name
           IN  IF name # <<>> /\ pass # <<>> /\ ~HasNul(pass) /\ ~taken
               THEN /\ Len(usuarios') = Len(usuarios) + 1
                    /\ SubSeq(usuarios', 1, Len(usuarios)) = usuarios
                    /\ usuarios'[Len(usuarios')].username = name
                    /\ usuarios'[Len(usuarios')].role
                           = Get(request'.fields.role, RoleUser)
                    /\ response'.page = "lista_usuarios"
               ELSE usuarios' = usuarios

\* C2: a logged-in user who is not an admin gets, from every admin-only route
\* and for GET and POST alike, a flash message and a redirect to the movements
\* page, with no data in the answer and both tables left as they were; the
\* same request by an admin is carried out.
C2_AdminOnly ==
    [][ (request'.route \in AdminRoutes /\ is_authenticated)
            => IF Me.role # RoleAdmin
               THEN /\ response' = Redirect(response'.flash,
                                            "registro_movimientos")
                    /\ response'.flash # ""
                    /\ usuarios' = usuarios
                    /\ movimientos' = movimientos
               ELSE C2_CarriedOut ]_vars

\* a user who is no admin has posted a complete new-user form while the
\* tables hold other users' rows
C2_Witness ==
    /\ is_authenticated /\ Me.role # RoleAdmin
    /\ request.route = "/usuarios/nuevo" /\ request.method = "POST"
    /\ Strip(request.fields.username) = Bob
    /\ request.fields.password = <<"a">>
    /\ \E i \in 1..Len(movimientos) : movimientos[i].usuario # Me.username
    /\ response.status = 302

\* C3, as claimed: verify_password(p, hash_password(s)) is true exactly when
\* p = s, also for secrets that differ only after the 72nd character.
C3_VerifiesIffEqual ==
    (pw_pc = "verified" /\ pw_plain # None /\ pw_presented # None)
        => (pw_result.value <=> pw_presented = pw_plain)

\* C3, amended: for secrets without NUL, verify_password(p, hash_password(s))
\* returns (never raises) true exactly when the UTF-8 encodings of p and s
\* agree on their first 72 bytes, on all of them when they are shorter.
C3_VerifiesIffSameFirstBytes ==
    (pw_pc = "verified" /\ pw_plain # None /\ pw_presented # None
        /\ ~HasNul(pw_plain) /\ ~HasNul(pw_presented))
        => pw_result = Returned(Take(Encode(pw_presented), BcryptMax)
                                = Take(Encode(pw_plain), BcryptMax))

\* a secret has been verified successfully against the hash of another one
C3_Witness ==
    /\ pw_pc = "verified"
    /\ pw_plain # None /\ pw_presented # None
    /\ ~HasNul(pw_plain) /\ ~HasNul(pw_presented)
    /\ pw_presented # pw_plain
    /\ Len(pw_plain) > BcryptMax
    /\ pw_result.value

\* the user row the login form's username names
C4_Target(f, row) == row.username = Strip(Get(f.username, <<>>))

\* C4: against a stored hash that is empty or malformed verify_password
\* returns false for every secret, None and "" included, and never raises; a
\* login for a user whose row holds such a hash ends as any failed login
\* does, with no session.
C4_MalformedHashNeverVerifies ==
    /\ \A p \in Secrets : \A h \in MalformedHashes :
           verify_password(p, h) = Returned(FALSE)
    /\ [][ (/\ request'.route = "/login" /\ request'.method = "POST"
            /\ session = 0
            /\ \E i \in 1..Len(usuarios) :
                   /\ C4_Target(request'.fields, usuarios[i])
                   /\ usuarios[i].password_hash \in MalformedHashes)
           => /\ response'.status = 200
              /\ response'.page = "login.html"
              /\ response'.flash = "Usuario o contrasena incorrectos."
              /\ session' = 0 ]_vars

\* a login has been tried for the user whose stored hash is empty
C4_Witness ==
    /\ request.route = "/login" /\ request.method = "POST"
    /\ request.fields.username = Leo
    /\ usuarios[3].username = Leo /\ usuarios[3].password_hash = EmptyHash
    /\ session = 0
    /\ response.status = 200

\* C5: what hash_password and verify_password hand to bcrypt is at most 72
\* bytes long, and is the secret itself when that is within the limit.
C5_HandedWithinLimit ==
    /\ pw_pc \in {"hashed", "hash_raised"}
        => /\ Len(Encode(pw_handed)) <= BcryptMax
           /\ (pw_plain # None /\ Len(Encode(pw_plain)) <= BcryptMax)
                  => pw_handed = pw_plain
    /\ pw_pc \in {"verified", "verified_stored"}
        => /\ Len(Encode(pw_handed)) <= BcryptMax
           /\ (pw_presented # None /\ Len(Encode(pw_presented)) <= BcryptMax)
                  => pw_handed = pw_presented

\* a submission the form has to turn down: the date missing or in neither
\* format, the amount missing, no number or not above zero, the type neither
\* 'Compra' nor 'Abono' (a form without a type field submits 'Compra')
C6_Invalid(f) ==
    \/ f.fecha = None
    \/ strptime(f.fecha, "%Y-%m-%d").raised /\ strptime(f.fecha, "%d/%m/%Y").raised
    \/ f.monto = None
    \/ float(Replace(f.monto, ",", ".")).raised
    \/ LET x == float(Replace(f.monto, ",", ".")).value
       IN  ~(x.kind = "inf" \/ (x.kind = "fin" /\ x.milli > 0))
    \/ f.tipo \notin {None, Compra, Abono}

\* C6: a POST of the movements form with an invalid date, amount or type is
\* answered with a flash message and a redirect, never with a server error,
\* and leaves the movements table unchanged.
C6_InvalidFormRejected ==
    [][ (/\ request'.route = "/movimientos" /\ request'.method = "POST"
         /\ is_authenticated
         /\ C6_Invalid(request'.fields))
        => /\ response'.status = 302
           /\ response'.flash \notin {"", "Movimiento guardado correctamente."}
           /\ movimientos' = movimientos ]_vars

\* the response the two failed logins share
C7_Generic ==
    Resp(200, "Usuario o contrasena incorrectos.", "login.html",
         <<"Usuario o contrasena incorrectos.">>, NoSaldo)

\* the row, if any, the submitted username names and whose hash the submitted
\* password verifies against
C7_Verified(f, row) ==
    /\ row.username = Strip(Get(f.username, <<>>))
    /\ verify_password(Get(f.password, <<>>), row.password_hash).value

\* C7: a login POST for a username that does not exist and one with a wrong
\* password for an existing username get the same response, the generic
\* message on the login page, and change nothing; a session is established
\* only by a login POST whose user exists and whose password verifies
\* against that user's hash, and it is that user's.
C7_LoginGeneric ==
    [][ /\ (request'.route = "/login" /\ request'.method = "POST" /\ session = 0)
            => IF \E i \in 1..Len(usuarios) :
                      C7_Verified(request'.fields, usuarios[i])
               THEN /\ response'.status = 302
                    /\ session' # 0
               ELSE /\ response' = C7_Generic
                    /\ session' = 0
                    /\ usuarios' = usuarios
                    /\ movimientos' = movimientos
        /\ (session' # session /\ session' # 0)
            => /\ request'.route = "/login" /\ request'.method = "POST"
               /\ \E i \in 1..Len(usuarios) :
                      /\ C7_Verified(request'.fields, usuarios[i])
                      /\ session' = usuarios[i].id ]_vars

\* an existing user has presented a wrong password and has been turned down
C7_Witness ==
    /\ request.route = "/login" /\ request.method = "POST"
    /\ request.fields.username = Admin
    /\ request.fields.password = <<"b">>
    /\ session = 0
    /\ response = C7_Generic

Exports == {"/reportes/pdf", "/reportes/excel"}

\* C8: an export lists the movements fetched, each with a running balance,
\* and ends with a final-balance line holding the final balance of the
\* movements listed.
C8_StatementHasBalances ==
    (request.route \in Exports /\ response.status = 200)
        => LET n == Len(response.rows)
           IN  /\ n >= 2
               /\ \A i \in 2..(n - 1) : "saldo" \in DOMAIN response.rows[i]
               /\ "saldo_final" \in DOMAIN response.rows[n]
               /\ response.rows[n].saldo_final
                      = ClaimedSum(SubSeq(response.rows, 2, n - 1))

\* how many movements of the table are username's
C9_Count(username) ==
    Cardinality({i \in 1..Len(movimientos) : movimientos[i].usuario = username})

\* C9: whatever the 'usuario' parameter, the export of a user who is no admin
\* holds that user's movements and no others; an admin's export holds the
\* movements of the user named, or all movements when none is named.
C9_ExportOwnOnly ==
    (request.route \in Exports /\ response.status = 200)
        => LET lines == Tail(response.rows)
               param == request.fields.usuario
           IN  IF Me.role # RoleAdmin
               THEN /\ \A i \in 1..Len(lines) : lines[i].usuario = Me.username
                    /\ Len(lines) = C9_Count(Me.username)
               ELSE IF param \in {None, <<>>}
               THEN Len(lines) = Len(movimientos)
               ELSE /\ \A i \in 1..Len(lines) : lines[i].usuario = param
                    /\ Len(lines) = C9_Count(param)

\* a user who is no admin has asked for the admin's movements, which exist,
\* and has got an export of their own
C9_Witness ==
    /\ request.route \in Exports /\ response.status = 200
    /\ Me.role # RoleAdmin
    /\ request.fields.usuario = Admin
    /\ C9_Count(Admin) > 0
    /\ C9_Count(Me.username) > 0
    /\ Len(response.rows) >= 2

\* C10: every movement the form stores has type 'Compra' or 'Abono', an
\* amount above zero, a valid date and the username of the user who was
\* logged in when it was submitted; stored movements are never changed.
C10_StoredMovementsWellFormed ==
    [][ movimientos' # movimientos
        => /\ Len(movimientos') = Len(movimientos) + 1
           /\ SubSeq(movimientos', 1, Len(movimientos)) = movimientos
           /\ LET r == movimientos'[Len(movimientos')]
              IN  /\ r.tipo \in {Compra, Abono}
                  /\ r.monto.kind = "fin" /\ r.monto.cents > 0
                  /\ r.fecha[1] >= 1
                  /\ r.fecha[2] \in 1..12
                  /\ r.fecha[3] \in 1..DaysIn(r.fecha[1], r.fecha[2])
                  /\ is_authenticated
                  /\ r.usuario = Me.username ]_vars

\* a POST of the form has been accepted: the handler stored the movement
C11_Accepted ==
    /\ request'.route = "/movimientos" /\ request'.method = "POST"
    /\ response'.flash = "Movimiento guardado correctamente."

\* the amount the form submitted, in thousandths
C11_Submitted == float(Replace(Get(request'.fields.monto, <<"0">>), ",", ".")).value

\* C11: an accepted submission by the logged-in user adds exactly one row,
\* that user's, and changes nothing else: no stored movement is modified or
\* deleted, the users table and the session stay, every other user's
\* computed balance stays, and the user's own computed balance moves by
\* exactly the submitted amount, up or down as the type says.
C11_AcceptedSubmissionFrame ==
    [][ C11_Accepted
        => /\ is_authenticated
           /\ Len(movimientos') = Len(movimientos) + 1
           /\ SubSeq(movimientos', 1, Len(movimientos)) = movimientos
           /\ movimientos'[Len(movimientos')].usuario = Me.username
           /\ usuarios' = usuarios
           /\ session' = session
           /\ \A i \in 1..Len(usuarios) :
                  usuarios[i].username # Me.username
                      => SaldoDe(usuarios[i].username)'
                             = SaldoDe(usuarios[i].username)
           /\ C11_Submitted.kind = "fin"
           /\ LET before == SaldoDe(Me.username).cents
                  after  == SaldoDe(Me.username)'.cents
                  tipo   == Get(request'.fields.tipo, Compra)
              IN  10 * (after - before)
                      = IF tipo = Abono THEN C11_Submitted.milli
                        ELSE -C11_Submitted.milli ]_vars

\* the routes behind @login_required
C12_Protected ==
    {"/movimientos", "/saldos", "/reportes/pdf", "/reportes/excel",
     "/usuarios", "/usuarios/nuevo", "/dashboard", "/logout"}

\* C12: while no session is established, before the first successful login
\* and after a logout alike, a request to any route but /login is answered
\* with a redirect to the login page that carries no stored data, and leaves
\* the movements table, the users table and the absence of a session as
\* they were.
C12_AnonymousRedirected ==
    [][ (session = 0 /\ request'.route # "/login")
        => /\ request'.route \in C12_Protected
           /\ response'.status = 302
           /\ response'.page = "login"
           /\ response'.rows = <<>>
           /\ response'.saldo = NoSaldo
           /\ movimientos' = movimientos
           /\ usuarios' = usuarios
           /\ session' = 0 ]_vars

\* after a login, a stored movement and a new user, and then a logout, the
\* anonymous client has asked for a protected page and has been sent to the
\* login page
C12_Witness ==
    /\ session = 0
    /\ movimientos # <<>>
    /\ Len(usuarios) > Len(InitUsuarios)
    /\ request.route \in C12_Protected \ {"/logout"}
    /\ response.status = 302 /\ response.page = "login"
    /\ response.rows = <<>>

====
